---- MODULE Spec2Model ----
(***************************************************************************)
(* State-machine model of the Sudoku solver: puzzle.py (Cell, Row, Column, *)
(* Box, Puzzle), solver.py (Solver and its four strategies) and the        *)
(* benchmark driver of test.py, which solves one starting grid with every  *)
(* strategy in turn, each on a freshly constructed Puzzle.                 *)
(***************************************************************************)
EXTENDS Integers, Sequences, FiniteSets, TLC

VARIABLES
    grid,                        \* the 9x9 input grid, row-major, cell index 0..80
    method,                      \* Solver.method
    value,                       \* Cell.value of every cell
    possible_values,             \* Cell.possible_values of every cell
    puzzle_solved,               \* Puzzle.solved (cached flag)
    steps,                       \* Solver.steps (legacy counter)
    cells_filled,                \* Solver.cells_filled
    elimination_operations,      \* Solver.elimination_operations
    solver_iterations,           \* Solver.solver_iterations
    logical_steps,               \* Solver.logical_steps
    solved,                      \* Solver.solved
    unsolvable,                  \* Solver.unsolvable
    iterations_without_progress, \* Solver.iterations_without_progress
    pc,                          \* position inside solve()
    cells_filled_this_iteration, \* local of the running loop body
    unit_idx,                    \* index of the unit a pairs/triples pass is at
    attempt,                     \* local of _solve_by_random
    results,                     \* test.py: outcome of every strategy already run
    lookup,                      \* outcome of the last Puzzle.get_cell call
    filled_log                   \* history: cells filled by each finished iteration

vars == <<grid, method, value, possible_values, puzzle_solved, steps,
          cells_filled, elimination_operations, solver_iterations,
          logical_steps, solved, unsolvable, iterations_without_progress,
          pc, cells_filled_this_iteration, unit_idx, attempt, results,
          lookup, filled_log>>

puzzle_vars == <<value, possible_values, puzzle_solved>>

stat_vars == <<steps, cells_filled, elimination_operations, solver_iterations,
               logical_steps, solved, unsolvable, iterations_without_progress>>

----------------------------------------------------------------------------
(* Topology: puzzle.py, Puzzle.__init__                                    *)

Digits == 1..9

Cells == 0..80

x_pos_abs(c) == c \div 9

y_pos_abs(c) == c % 9

get_box_id(x, y) == (x \div 3) * 3 + (y \div 3)

\* rows[r].cells, in the order the constructor appends them
rows == [r \in 0..8 |-> [k \in 1..9 |-> r * 9 + (k - 1)]]

\* columns[col].cells
columns == [col \in 0..8 |-> [k \in 1..9 |-> (k - 1) * 9 + col]]

\* boxes[b].cells: the constructor scans row by row, so a box's cells come
\* in row-major order of the box
boxes ==
    [b \in 0..8 |->
        [k \in 1..9 |->
            ((b \div 3) * 3 + ((k - 1) \div 3)) * 9 + (b % 3) * 3 + ((k - 1) % 3)]]

\* self.puzzle.rows + self.puzzle.columns + self.puzzle.boxes
units ==
    [u \in 0..26 |->
        IF u < 9 THEN rows[u] ELSE IF u < 18 THEN columns[u - 9] ELSE boxes[u - 18]]

UnitSet(unit) == {unit[k] : k \in 1..9}

\* the cells of the row, the column and the box of cell i (cell i included)
house ==
    [i \in Cells |->
        UnitSet(rows[x_pos_abs(i)]) \cup UnitSet(columns[y_pos_abs(i)])
            \cup UnitSet(boxes[get_box_id(x_pos_abs(i), y_pos_abs(i))])]

\* Cell.__init__: the candidate set of a cell constructed with value v
CellInit(v) == IF v = 0 THEN Digits ELSE {v}

\* Row/Column/Box.is_satisfied
is_satisfied(unit, val) == ({val[unit[k]] : k \in 1..9} \ {0}) = Digits

\* Puzzle.is_solved
is_solved(val) ==
    /\ \A b \in 0..8 : is_satisfied(boxes[b], val)
    /\ \A r \in 0..8 : is_satisfied(rows[r], val)
    /\ \A col \in 0..8 : is_satisfied(columns[col], val)

----------------------------------------------------------------------------
(* Input grids: what the external loader hands to Puzzle(grid)             *)

GridOf(seq) == [c \in Cells |-> seq[c + 1]]

\* a complete valid grid: the completion of EasyGrid
Solution ==
    GridOf(<<9, 1, 5, 7, 8, 6, 4, 3, 2,
             4, 2, 7, 3, 1, 9, 6, 5, 8,
             6, 8, 3, 4, 5, 2, 9, 1, 7,
             8, 7, 1, 5, 4, 3, 2, 9, 6,
             3, 4, 9, 6, 2, 7, 5, 8, 1,
             2, 5, 6, 1, 9, 8, 7, 4, 3,
             7, 6, 4, 8, 3, 5, 1, 2, 9,
             1, 3, 2, 9, 7, 4, 8, 6, 5,
             5, 9, 8, 2, 6, 1, 3, 7, 4>>)

\* the easy puzzle of the specification (38 givens)
EasyGrid ==
    GridOf(<<0, 1, 0, 0, 8, 6, 0, 3, 2,
             0, 2, 0, 0, 0, 9, 6, 5, 0,
             6, 0, 3, 0, 0, 0, 9, 1, 0,
             0, 0, 1, 5, 4, 3, 2, 0, 6,
             0, 4, 0, 0, 2, 0, 0, 8, 1,
             2, 5, 0, 1, 0, 0, 0, 0, 0,
             7, 0, 0, 0, 0, 5, 0, 0, 0,
             1, 0, 0, 0, 7, 0, 8, 6, 5,
             0, 9, 8, 0, 0, 1, 3, 0, 4>>)

\* a puzzle with completion Solution that basic elimination alone does not finish
PairsGrid ==
    GridOf(<<0, 0, 5, 0, 0, 6, 0, 3, 0,
             4, 2, 0, 0, 1, 9, 6, 5, 8,
             0, 8, 0, 0, 5, 2, 0, 0, 7,
             0, 0, 0, 5, 4, 3, 2, 9, 6,
             0, 0, 0, 0, 0, 7, 0, 0, 1,
             0, 0, 6, 1, 0, 8, 7, 4, 3,
             0, 6, 4, 8, 3, 0, 1, 0, 9,
             1, 3, 0, 0, 0, 0, 8, 0, 5,
             5, 9, 0, 0, 6, 0, 3, 0, 4>>)

\* a sparse puzzle (20 givens) with completion Solution, on which triples remove candidates
SparseGrid ==
    GridOf(<<9, 0, 0, 0, 0, 0, 0, 0, 0,
             0, 0, 0, 3, 0, 0, 6, 0, 0,
             0, 0, 3, 0, 0, 2, 0, 0, 0,
             0, 0, 0, 5, 0, 0, 2, 0, 6,
             0, 0, 0, 0, 0, 7, 5, 0, 0,
             2, 0, 0, 0, 9, 0, 0, 4, 3,
             0, 0, 0, 8, 0, 0, 0, 2, 0,
             0, 0, 0, 0, 0, 4, 0, 0, 0,
             0, 9, 8, 0, 0, 0, 0, 7, 0>>)

\* Solution with 16 cells blanked and cell (3,6) holding 5 instead of 2
ContradictoryGrid ==
    GridOf(<<9, 1, 5, 7, 8, 6, 0, 3, 2,
             4, 0, 7, 3, 0, 9, 6, 5, 8,
             6, 8, 3, 4, 5, 2, 9, 1, 7,
             8, 7, 0, 0, 4, 3, 5, 9, 6,
             3, 4, 0, 6, 2, 7, 5, 8, 1,
             0, 0, 6, 0, 9, 8, 7, 4, 0,
             7, 6, 4, 0, 3, 5, 1, 0, 9,
             1, 3, 0, 9, 7, 4, 8, 6, 5,
             0, 0, 8, 2, 6, 1, 3, 0, 4>>)

\* Solution with 31 cells blanked, cell (3,4) holding 8 instead of 4 and cell
\* (5,8) holding 9 instead of 3: a grid without completion on which a locked
\* triple meets a cell whose candidates are all digits of the triple
OrderGrid ==
    GridOf(<<9, 1, 5, 0, 8, 6, 4, 3, 2,
             4, 2, 7, 0, 1, 9, 6, 0, 0,
             0, 0, 0, 4, 0, 2, 9, 1, 7,
             8, 0, 0, 5, 8, 0, 2, 0, 0,
             0, 4, 0, 6, 0, 7, 0, 8, 1,
             2, 5, 0, 1, 0, 8, 7, 4, 9,
             0, 6, 0, 0, 3, 5, 1, 0, 0,
             1, 0, 2, 0, 7, 4, 0, 6, 5,
             5, 0, 0, 2, 6, 1, 0, 7, 0>>)

\* Solution with 26 cells blanked, cell (5,6) holding 3 instead of 7 and cell
\* (8,2) holding 2 instead of 8: a grid without completion on which one
\* locked pair of a box empties the cells of another
StaleGrid ==
    GridOf(<<9, 1, 5, 7, 8, 6, 4, 3, 2,
             4, 0, 0, 0, 0, 0, 0, 0, 8,
             6, 8, 0, 4, 5, 0, 9, 1, 0,
             8, 7, 1, 5, 0, 3, 0, 0, 6,
             3, 0, 9, 6, 2, 7, 5, 0, 1,
             2, 5, 6, 0, 0, 0, 3, 0, 3,
             7, 6, 4, 8, 3, 5, 1, 2, 9,
             1, 3, 2, 0, 7, 4, 0, 0, 5,
             5, 0, 2, 2, 6, 0, 0, 0, 4>>)

\* the hard scenario of the specification taken to its limit: no givens
EmptyGrid == [c \in Cells |-> 0]

\* largest number of cells blanked in the generated near-complete grids
MaxHoles == 3

\* largest number of empty cells of a grid handed to the random strategy
MaxRandomEmpty == 3

\* get_cell is called with coordinates in -CoordSlack .. 8 + CoordSlack
CoordSlack == 1

\* cap on the iterations of one run of the elimination loop that the model
\* follows; no run of the loop comes near it (see C2_EliminationTerminates)
MaxIterations == 12

\* Cells blanked in the generated grids.  Cells 13, 16, 22, 25 are the corners
\* (1,4), (1,7), (2,4), (2,7) of a rectangle of Solution holding 1 5 / 5 1.
HoleCells == <<13, 16, 22, 25, 40, 80>>

\* Solution with the cells of holes blanked.  A corrupt grid holds 1 in
\* cell 9 = (1,0) instead of 4: row 1 then holds 1 twice, or leaves no digit
\* for the blanked cell 13.
Blanked(holes, corrupt) ==
    [c \in Cells |->
        IF c \in holes THEN 0
        ELSE IF corrupt /\ c = 9 THEN 1
        ELSE Solution[c]]

GeneratedGrids ==
    {Blanked(holes, corrupt) :
        holes \in SUBSET {HoleCells[k] : k \in 1..MaxHoles}, corrupt \in BOOLEAN}

NamedGrids ==
    {EasyGrid, PairsGrid, SparseGrid, ContradictoryGrid, OrderGrid, StaleGrid,
     EmptyGrid}

Grids == NamedGrids \cup GeneratedGrids

EmptyCount(g) == Cardinality({c \in Cells : g[c] = 0})

\* a completion of g: a complete grid that satisfies all 27 units and agrees
\* with every given of g
IsCompletionOf(S, g) ==
    /\ is_solved(S)
    /\ \A c \in Cells : g[c] # 0 => g[c] = S[c]

----------------------------------------------------------------------------
(* Strategies: solver.py, Solver.solve                                     *)

Methods == <<"elimination", "elimination_plus", "elimination_pro", "random">>

MethodSet == {Methods[k] : k \in 1..Len(Methods)}

EliminationMethods == {"elimination", "elimination_plus", "elimination_pro"}

\* a strategy name outside the closed set
UnknownMethods == {"backtracking"}

MethodIndex(m) == CHOOSE k \in 1..Len(Methods) : Methods[k] = m

\* _solve_by_elimination / _plus / _pro: the flags handed to the base loop
use_pairs(m) == m \in {"elimination_plus", "elimination_pro"}

use_triples(m) == m = "elimination_pro"

max_iterations_without_progress == 5

\* max_attempts no larger than the number of empty cells of the input grid
max_attempts_cells == EmptyCount(grid)

max_attempts == 10000

\* Dispatch with an unknown name falling back to the default strategy
DispatchDefault(m) ==
    IF m = "random" THEN "rloop"
    ELSE IF m \in EliminationMethods \cup UnknownMethods THEN "loop"
    ELSE "raised"

\* Solver.solve: where control goes for strategy name m
Dispatch(m) ==
    IF m \in EliminationMethods THEN "loop"
    ELSE IF m = "random" THEN "rloop"
    ELSE "raised"

----------------------------------------------------------------------------
(* Basic elimination: solver.py, Solver._perform_basic_elimination         *)

\* Eliminated with the box loop (lines 144-150) left out
EliminatedRowColumn(c, val, pv) ==
    pv[c] \cap {val[i] : i \in {j \in house[c] : val[j] # 0 /\ (x_pos_abs(j) = x_pos_abs(c)
                                                             \/ y_pos_abs(j) = y_pos_abs(c))}}

\* Lines 124-150 for cell c: the digits the sweep takes from c's candidates.
\* The sweep visits every filled cell i and removes i's value from each cell of
\* i's row, column and box (cell i included); no cell value changes while it
\* runs, so cell c loses exactly the values of the filled cells of its own row,
\* column and box that it still lists.
Eliminated(c, val, pv) == pv[c] \cap {val[i] : i \in {j \in house[c] : val[j] # 0}}

\* Sweep with the operation counted for every cell visited, removed or not
SweepCountingVisits(val, pv) ==
    [pv  |-> [c \in Cells |-> pv[c] \ Eliminated(c, val, pv)],
     ops |-> 27 * Cardinality({i \in Cells : val[i] # 0}),
     ls  |-> Cardinality({i \in Cells : val[i] # 0})]

\* The whole elimination sweep, lines 121-150: one logical step per filled
\* cell (line 125), one elimination operation per candidate removed (a second
\* visit of the same cell for the same value finds it gone and counts nothing).
Sweep(val, pv) ==
    [pv  |-> [c \in Cells |-> pv[c] \ Eliminated(c, val, pv)],
     ops |-> Cardinality({p \in Cells \X Digits : p[2] \in Eliminated(p[1], val, pv)}),
     ls  |-> Cardinality({i \in Cells : val[i] # 0})]

\* Singles with a cell filled as soon as two candidates are left
SinglesOrPairs(val, pv) == {c \in Cells : val[c] = 0 /\ Cardinality(pv[c]) \in {1, 2}}

\* the cells the fill phase fills: lines 153-154
Singles(val, pv) == {c \in Cells : val[c] = 0 /\ Cardinality(pv[c]) = 1}

\* set.pop() on a one-element set: the element is returned and leaves the set
Pop(S) == [elem |-> CHOOSE x \in S : TRUE, rest |-> {}]

\* FillSingles with every filled value taken at once from the candidates of
\* the unfilled cells of its row, column and box
FillSinglesPropagating(val, pv) ==
    LET singles == Singles(val, pv)
        nval == [c \in Cells |-> IF c \in singles THEN Pop(pv[c]).elem ELSE val[c]]
    IN  [val    |-> nval,
         pv     |-> [c \in Cells |->
                        IF c \in singles THEN Pop(pv[c]).rest
                        ELSE IF val[c] # 0 THEN pv[c]
                        ELSE pv[c] \ {nval[i] : i \in house[c] \cap singles}],
         filled |-> Cardinality(singles)]

\* FillSingles with the fill counted once per call instead of once per cell
FillSinglesCountedOnce(val, pv) ==
    LET singles == Singles(val, pv)
    IN  [val    |-> [c \in Cells |-> IF c \in singles THEN Pop(pv[c]).elem ELSE val[c]],
         pv     |-> [c \in Cells |-> IF c \in singles THEN Pop(pv[c]).rest ELSE pv[c]],
         filled |-> IF singles = {} THEN 0 ELSE 1]

\* the fill phase: lines 153-157
FillSingles(val, pv) ==
    LET singles == Singles(val, pv)
    IN  [val    |-> [c \in Cells |-> IF c \in singles THEN Pop(pv[c]).elem ELSE val[c]],
         pv     |-> [c \in Cells |-> IF c \in singles THEN Pop(pv[c]).rest ELSE pv[c]],
         filled |-> Cardinality(singles)]

----------------------------------------------------------------------------
(* Subset exclusion: Solver._apply_pairs_technique (k = 2) and             *)
(* Solver._apply_triples_technique (k = 3), one unit at a time             *)

\* the orders in which "for val in key" may visit the k digits of a key: the
\* iteration order of a frozenset is not fixed by the language
Orders(k) == {s \in [1..k -> 1..k] : \A i, j \in 1..k : i # j => s[i] # s[j]}

\* the digits of key in ascending order
Ascending(key) ==
    CHOOSE s \in [1..Cardinality(key) -> key] :
        \A i, j \in 1..Cardinality(key) : i < j => s[i] < s[j]

\* the digits of key in the order sigma picks
VisitOrder(key, sigma) == [j \in 1..Cardinality(key) |-> Ascending(key)[sigma[j]]]

RECURSIVE RemoveVals(_, _, _)
\* Lines 187-197 for one cell: "for val in key" from position j of ord on.
\* c = [pv, val, ops, ls, filled] is the cell with the counts it has caused.
RemoveVals(ord, j, c) ==
    IF j > Len(ord) THEN c
    ELSE IF ord[j] \notin c.pv THEN RemoveVals(ord, j + 1, c)
    ELSE LET left == c.pv \ {ord[j]}
         IN  IF Cardinality(left) = 1
             THEN RemoveVals(ord, j + 1,
                     [pv |-> Pop(left).rest, val |-> Pop(left).elem,
                      ops |-> c.ops + 1, ls |-> c.ls + 2, filled |-> c.filled + 1])
             ELSE RemoveVals(ord, j + 1,
                     [pv |-> left, val |-> c.val,
                      ops |-> c.ops + 1, ls |-> c.ls + 1, filled |-> c.filled])

\* Lines 173-180: the candidate sets of size k of the unit's unfilled cells,
\* in the order a dict keeps them (first occurrence along unit.cells)
RECURSIVE KeysFrom(_, _, _, _, _, _)
KeysFrom(j, unit, k, val, pv, acc) ==
    IF j > 9 THEN acc
    ELSE LET c == unit[j]
             isKey == val[c] = 0 /\ Cardinality(pv[c]) = k
             seen == \E n \in 1..Len(acc) : acc[n] = pv[c]
         IN  KeysFrom(j + 1, unit, k, val, pv,
                      IF isKey /\ ~seen THEN Append(acc, pv[c]) ELSE acc)

Keys(unit, k, val, pv) == KeysFrom(1, unit, k, val, pv, <<>>)

\* pairs[key] / triples[key]: the cells grouped under key when the unit is entered
CellsWith(key, unit, val, pv) == {c \in UnitSet(unit) : val[c] = 0 /\ pv[c] = key}

\* Locked for every key, however many cells carry it
LockedAny(group, k) == group # {}

\* Locked with "at most k cells" for "exactly k cells"
LockedAtMost(group, k) == Cardinality(group) <= k

\* line 184 / 224: the key is locked when exactly k cells carry it
Locked(group, k) == Cardinality(group) = k

\* Lines 185-197 for one locked key: every cell of the unit outside the group
\* that is unfilled now has the key's digits removed.  st = [val, pv, ops, ls, filled].
ExcludeKey(key, group, unit, sigma, st) ==
    LET others == {c \in UnitSet(unit) : c \notin group /\ st.val[c] = 0}
        after(c) == RemoveVals(VisitOrder(key, sigma), 1,
                        [pv |-> st.pv[c], val |-> st.val[c], ops |-> 0, ls |-> 0, filled |-> 0])
        count(f) == LET RECURSIVE Sum(_)
                        Sum(j) == IF j > 9 THEN 0
                                  ELSE (IF unit[j] \in others THEN f[unit[j]] ELSE 0) + Sum(j + 1)
                    IN  Sum(1)
        res == [c \in others |-> after(c)]
    IN  [val    |-> [c \in Cells |-> IF c \in others THEN res[c].val ELSE st.val[c]],
         pv     |-> [c \in Cells |-> IF c \in others THEN res[c].pv ELSE st.pv[c]],
         ops    |-> st.ops + count([c \in others |-> res[c].ops]),
         ls     |-> st.ls + count([c \in others |-> res[c].ls]),
         filled |-> st.filled + count([c \in others |-> res[c].filled])]

RECURSIVE ExcludeFrom(_, _, _, _, _, _, _, _)
\* Lines 183-197: "for key, cells in pairs.items()" from the n-th key on; the
\* groups are those found when the unit was entered (val0, pv0)
ExcludeFrom(n, keys, unit, k, sigma, val0, pv0, st) ==
    IF n > Len(keys) THEN st
    ELSE LET group == CellsWith(keys[n], unit, val0, pv0)
         IN  ExcludeFrom(n + 1, keys, unit, k, sigma, val0, pv0,
                 IF Locked(group, k)
                 THEN ExcludeKey(keys[n], group, unit, sigma, st)
                 ELSE st)

\* the body of "for unit in rows + columns + boxes" for one unit
ApplyToUnit(unit, k, sigma, val, pv) ==
    ExcludeFrom(1, Keys(unit, k, val, pv), unit, k, sigma, val, pv,
                [val |-> val, pv |-> pv, ops |-> 0, ls |-> 0, filled |-> 0])

----------------------------------------------------------------------------
(* Random fill: Solver._get_valid_values_for_cell                          *)

\* get_valid_values_for_cell consulting the row alone
get_valid_values_in_row(c, val) ==
    IF val[c] # 0 THEN {}
    ELSE Digits \ {val[p] : p \in {q \in house[c] : val[q] # 0 /\ x_pos_abs(q) = x_pos_abs(c)}}

\* lines 303-328: the digits no filled cell of the cell's row, column or box holds
get_valid_values_for_cell(c, val) ==
    IF val[c] # 0 THEN {}
    ELSE Digits \ {val[p] : p \in {q \in house[c] : val[q] # 0}}

----------------------------------------------------------------------------
(* Puzzle.get_cell                                                         *)

\* Python's list indexing seq[i] on a list of n items: a negative index counts
\* from the end, anything else outside the list raises IndexError
ListIndex(i, n) ==
    IF 0 <= i /\ i < n THEN [raised |-> FALSE, index |-> i]
    ELSE IF -n <= i /\ i < 0 THEN [raised |-> FALSE, index |-> i + n]
    ELSE [raised |-> TRUE, index |-> -1]

\* puzzle.py line 153: return self.cells[x * 9 + y]
get_cell(x, y) == ListIndex(x * 9 + y, 81)

Coords == (0 - CoordSlack)..(8 + CoordSlack)

NoLookup == [called |-> FALSE, x |-> 0, y |-> 0, raised |-> FALSE, index |-> 0]

----------------------------------------------------------------------------
(* test.py: the outcome kept of one finished run                           *)

NotRun ==
    [ran |-> FALSE, solved |-> FALSE, unsolvable |-> FALSE, cells_filled |-> 0,
     elimination_operations |-> 0, solver_iterations |-> 0, logical_steps |-> 0,
     value |-> EmptyGrid, possible_values |-> [c \in Cells |-> {}]]

CurrentOutcome ==
    [ran |-> TRUE, solved |-> solved, unsolvable |-> unsolvable,
     cells_filled |-> cells_filled,
     elimination_operations |-> elimination_operations,
     solver_iterations |-> solver_iterations, logical_steps |-> logical_steps,
     value |-> value, possible_values |-> possible_values]

\* the outcome of strategy m on the grid, once its solve() has returned
Outcome(m) == IF m = method /\ pc = "done" THEN CurrentOutcome ELSE results[m]

----------------------------------------------------------------------------
(* Initial state: Puzzle(grid) and Solver(puzzle, method) just constructed *)

Init ==
    /\ grid \in Grids
    /\ method \in {Methods[1]} \cup UnknownMethods
    /\ value = grid
    /\ possible_values = [c \in Cells |-> CellInit(grid[c])]
    /\ puzzle_solved = FALSE
    /\ steps = 0
    /\ cells_filled = 0
    /\ elimination_operations = 0
    /\ solver_iterations = 0
    /\ logical_steps = 0
    /\ solved = FALSE
    /\ unsolvable = FALSE
    /\ iterations_without_progress = 0
    /\ pc = "constructed"
    /\ cells_filled_this_iteration = 0
    /\ unit_idx = 0
    /\ attempt = 0
    /\ results = [m \in MethodSet |-> NotRun]
    /\ lookup = NoLookup
    /\ filled_log = <<>>

----------------------------------------------------------------------------
(* Actions                                                                 *)

\* Puzzle.get_cell(x, y), called on the constructed puzzle
GetCell ==
    /\ pc = "constructed"
    /\ ~lookup.called
    /\ \E x \in Coords, y \in Coords :
          lookup' = [called |-> TRUE, x |-> x, y |-> y,
                     raised |-> get_cell(x, y).raised, index |-> get_cell(x, y).index]
    /\ UNCHANGED <<grid, method, puzzle_vars, stat_vars, pc,
                   cells_filled_this_iteration, unit_idx, attempt, results, filled_log>>

\* Solver.solve: dispatch on the strategy name, ValueError for an unknown one
Solve ==
    /\ pc = "constructed"
    /\ pc' = Dispatch(method)
    /\ lookup' = NoLookup
    /\ UNCHANGED <<grid, method, puzzle_vars, stat_vars,
                   cells_filled_this_iteration, unit_idx, attempt, results, filled_log>>

\* _solve_by_elimination_base, lines 81-83: the loop is entered once more
IterBegin ==
    /\ pc = "loop"
    /\ ~solved /\ ~unsolvable
    /\ solver_iterations < MaxIterations
    /\ solver_iterations' = solver_iterations + 1
    /\ cells_filled_this_iteration' = 0
    /\ pc' = "sweep"
    /\ UNCHANGED <<grid, method, puzzle_vars, steps, cells_filled,
                   elimination_operations, logical_steps, solved, unsolvable,
                   iterations_without_progress, unit_idx, attempt, results,
                   lookup, filled_log>>

\* _solve_by_elimination_base, line 81: the loop condition fails
LoopExit ==
    /\ pc = "loop"
    /\ solved \/ unsolvable
    /\ pc' = "done"
    /\ UNCHANGED <<grid, method, puzzle_vars, stat_vars,
                   cells_filled_this_iteration, unit_idx, attempt, results,
                   lookup, filled_log>>

\* _perform_basic_elimination, lines 121-150: the elimination sweep
SweepStep ==
    /\ pc = "sweep"
    /\ LET st == Sweep(value, possible_values)
       IN  /\ possible_values' = st.pv
           /\ elimination_operations' = elimination_operations + st.ops
           /\ logical_steps' = logical_steps + st.ls
    /\ pc' = "fill"
    /\ UNCHANGED <<grid, method, value, puzzle_solved, steps, cells_filled,
                   solver_iterations, solved, unsolvable,
                   iterations_without_progress, cells_filled_this_iteration,
                   unit_idx, attempt, results, lookup, filled_log>>

\* where the loop body goes after basic elimination (lines 89-93)
AfterBasic(m) ==
    IF use_pairs(m) THEN "pairs" ELSE IF use_triples(m) THEN "triples" ELSE "check"

\* where the loop body goes after the pairs pass (lines 92-93)
AfterPairs(m) == IF use_triples(m) THEN "triples" ELSE "check"

\* _perform_basic_elimination, lines 153-159: singles are filled
FillStep ==
    /\ pc = "fill"
    /\ LET st == FillSingles(value, possible_values)
       IN  /\ value' = st.val
           /\ possible_values' = st.pv
           /\ cells_filled' = cells_filled + st.filled
           /\ cells_filled_this_iteration' = cells_filled_this_iteration + st.filled
    /\ pc' = AfterBasic(method)
    /\ unit_idx' = 0
    /\ UNCHANGED <<grid, method, puzzle_solved, steps, elimination_operations,
                   solver_iterations, logical_steps, solved, unsolvable,
                   iterations_without_progress, attempt, results, lookup, filled_log>>

\* one unit of a subset-exclusion pass for keys of size k, then on to the next
\* unit, or to pc value next after the last of the 27 units
UnitStep(k, next) ==
    \E sigma \in Orders(k) :
        LET st == ApplyToUnit(units[unit_idx], k, sigma, value, possible_values)
        IN  /\ value' = st.val
            /\ possible_values' = st.pv
            /\ elimination_operations' = elimination_operations + st.ops
            /\ logical_steps' = logical_steps + st.ls
            /\ cells_filled' = cells_filled + st.filled
            /\ cells_filled_this_iteration' = cells_filled_this_iteration + st.filled
            /\ IF unit_idx = 26
               THEN pc' = next /\ unit_idx' = 0
               ELSE pc' = pc /\ unit_idx' = unit_idx + 1
            /\ UNCHANGED <<grid, method, puzzle_solved, steps, solver_iterations,
                           solved, unsolvable, iterations_without_progress,
                           attempt, results, lookup, filled_log>>

\* _apply_pairs_technique, lines 171-197, for the unit at unit_idx
PairsUnit ==
    /\ pc = "pairs"
    /\ UnitStep(2, AfterPairs(method))

\* _apply_triples_technique, lines 211-237, for the unit at unit_idx
TriplesUnit ==
    /\ pc = "triples"
    /\ UnitStep(3, "check")

\* StagnationReached with > for >=
StagnationPassed(n) == n > max_iterations_without_progress

\* StagnationReached reading the wrong counter
StagnationWrongCounter(n) == cells_filled_this_iteration >= max_iterations_without_progress

\* line 101: the stagnation limit is reached
StagnationReached(n) == n >= max_iterations_without_progress

\* _solve_by_elimination_base, lines 96-109: progress check and solved check
Check ==
    /\ pc = "check"
    /\ steps' = cells_filled
    /\ filled_log' = Append(filled_log, cells_filled_this_iteration)
    /\ IF cells_filled_this_iteration = 0
       THEN /\ iterations_without_progress' = iterations_without_progress + 1
            /\ IF StagnationReached(iterations_without_progress + 1)
               THEN /\ unsolvable' = TRUE
                    /\ pc' = "done"
                    /\ UNCHANGED <<solved, puzzle_solved>>
               ELSE /\ solved' = is_solved(value)
                    /\ puzzle_solved' = is_solved(value)
                    /\ pc' = "loop"
                    /\ UNCHANGED unsolvable
       ELSE /\ iterations_without_progress' = 0
            /\ solved' = is_solved(value)
            /\ puzzle_solved' = is_solved(value)
            /\ pc' = "loop"
            /\ UNCHANGED unsolvable
    /\ UNCHANGED <<grid, method, value, possible_values, cells_filled,
                   elimination_operations, solver_iterations, logical_steps,
                   cells_filled_this_iteration, unit_idx, attempt, results, lookup>>

\* line 249: the condition of the random strategy's loop
RandomContinues == ~solved /\ ~unsolvable /\ attempt < max_attempts

\* NoEmptyCellsSolved asking the puzzle instead of reporting success
NoEmptyCellsChecked(val) == is_solved(val)

\* lines 257-259: what the random strategy reports when no cell is empty
NoEmptyCellsSolved(val) == TRUE

\* _solve_by_random, lines 249-287: one attempt
RandomAttempt ==
    /\ pc = "rloop"
    /\ RandomContinues
    /\ solver_iterations' = solver_iterations + 1
    /\ attempt' = attempt + 1
    /\ cells_filled_this_iteration' = 0
    /\ LET empty_cells == {c \in Cells : value[c] = 0}
       IN  IF empty_cells = {}
           THEN /\ solved' = NoEmptyCellsSolved(value)
                /\ pc' = "rbreak"
                /\ UNCHANGED <<puzzle_vars, steps, cells_filled, logical_steps, unsolvable>>
           ELSE \E target_cell \in empty_cells :
                   LET valid_values == get_valid_values_for_cell(target_cell, value)
                   IN  IF valid_values # {}
                       THEN \E selected_value \in valid_values :
                               /\ value' = [value EXCEPT ![target_cell] = selected_value]
                               /\ possible_values' =
                                     [possible_values EXCEPT ![target_cell] = {selected_value}]
                               /\ cells_filled' = cells_filled + 1
                               /\ logical_steps' = logical_steps + 1
                               /\ solved' = is_solved(value')
                               /\ puzzle_solved' = is_solved(value')
                               /\ steps' = cells_filled + 1
                               /\ pc' = "rloop"
                               /\ UNCHANGED unsolvable
                       ELSE /\ unsolvable' = TRUE
                            /\ pc' = "rbreak"
                            /\ UNCHANGED <<puzzle_vars, steps, cells_filled,
                                           logical_steps, solved>>
    /\ UNCHANGED <<grid, method, elimination_operations,
                   iterations_without_progress, unit_idx, results, lookup, filled_log>>

\* _solve_by_random, lines 289-291: after the loop
RandomExit ==
    /\ pc = "rbreak" \/ (pc = "rloop" /\ ~RandomContinues)
    /\ unsolvable' = (IF attempt >= max_attempts THEN TRUE ELSE unsolvable)
    /\ pc' = "done"
    /\ UNCHANGED <<grid, method, puzzle_vars, steps, cells_filled,
                   elimination_operations, solver_iterations, logical_steps,
                   solved, iterations_without_progress,
                   cells_filled_this_iteration, unit_idx, attempt, results,
                   lookup, filled_log>>

\* test.py, run_solver_test called for the next strategy of main's list: the
\* finished run's outcome is kept, and a fresh Puzzle and Solver are built
\* from the same starting grid
NextRun ==
    /\ pc = "done"
    /\ method \in MethodSet
    /\ MethodIndex(method) < Len(Methods)
    /\ LET next == Methods[MethodIndex(method) + 1]
       IN  /\ next = "random" => EmptyCount(grid) <= MaxRandomEmpty
           /\ method' = next
    /\ results' = [results EXCEPT ![method] = CurrentOutcome]
    /\ value' = grid
    /\ possible_values' = [c \in Cells |-> CellInit(grid[c])]
    /\ puzzle_solved' = FALSE
    /\ steps' = 0
    /\ cells_filled' = 0
    /\ elimination_operations' = 0
    /\ solver_iterations' = 0
    /\ logical_steps' = 0
    /\ solved' = FALSE
    /\ unsolvable' = FALSE
    /\ iterations_without_progress' = 0
    /\ pc' = "constructed"
    /\ cells_filled_this_iteration' = 0
    /\ unit_idx' = 0
    /\ attempt' = 0
    /\ lookup' = NoLookup
    /\ filled_log' = <<>>
    /\ UNCHANGED grid

\* test.py, lines 101-104 for a second puzzle holding the same grid: the
\* finished run's outcome is kept, and the same strategy runs once more on a
\* fresh Puzzle and Solver built from the same starting grid
Rerun ==
    /\ pc = "done"
    /\ method \in EliminationMethods
    /\ ~results[method].ran
    /\ results' = [results EXCEPT ![method] = CurrentOutcome]
    /\ value' = grid
    /\ possible_values' = [c \in Cells |-> CellInit(grid[c])]
    /\ puzzle_solved' = FALSE
    /\ steps' = 0
    /\ cells_filled' = 0
    /\ elimination_operations' = 0
    /\ solver_iterations' = 0
    /\ logical_steps' = 0
    /\ solved' = FALSE
    /\ unsolvable' = FALSE
    /\ iterations_without_progress' = 0
    /\ pc' = "constructed"
    /\ cells_filled_this_iteration' = 0
    /\ unit_idx' = 0
    /\ attempt' = 0
    /\ lookup' = NoLookup
    /\ filled_log' = <<>>
    /\ UNCHANGED <<grid, method>>

Next ==
    \/ GetCell
    \/ Solve
    \/ IterBegin
    \/ LoopExit
    \/ SweepStep
    \/ FillStep
    \/ PairsUnit
    \/ TriplesUnit
    \/ Check
    \/ RandomAttempt
    \/ RandomExit
    \/ NextRun
    \/ Rerun

Spec == Init /\ [][Next]_vars

----------------------------------------------------------------------------
(* Claims                                                                  *)

\* every digit occurs exactly once among the nine cells of unit
ExactlyOnce(unit, val) ==
    \A d \in Digits : Cardinality({k \in 1..9 : val[unit[k]] = d}) = 1

\* C1: whenever Solver.solved is true, each of the 27 units holds every digit
\* 1..9 exactly once (for every input grid and every strategy).
C1_SolvedUnitsValid == solved => \A u \in 0..26 : ExactlyOnce(units[u], value)

\* C2: for every input grid, contradictory ones included, solve() with each of
\* elimination, elimination_plus and elimination_pro terminates, and it ends
\* with solved or unsolvable set.  Termination is stated by its variant: the
\* iterations are bounded by the cells filled (at most the empty cells of the
\* input) and the stagnation counter (at most its limit), solve() returns only
\* with solved or unsolvable set, and at the head of the loop either another
\* iteration or the exit is enabled (so the model's iteration cap is never
\* met); every other step of the loop body is guarded by pc alone.
C2_EliminationTerminates ==
    method \in EliminationMethods =>
        /\ cells_filled <= EmptyCount(grid)
        /\ iterations_without_progress <= max_iterations_without_progress
        /\ solver_iterations
              <= max_iterations_without_progress * cells_filled
                    + iterations_without_progress + 1
        /\ pc = "done" => solved \/ unsolvable
        /\ pc = "loop" => ENABLED (IterBegin \/ LoopExit)
        /\ pc \in {"constructed", "loop", "sweep", "fill", "pairs", "triples",
                   "check", "done"}

\* a contradictory grid on which the strongest strategy has returned
C2_Witness ==
    /\ grid = ContradictoryGrid
    /\ method = "elimination_pro"
    /\ pc = "done"
    /\ unsolvable

RECURSIVE TrailingZeros(_)
\* the length of the run of zero entries that ends the sequence log
TrailingZeros(log) ==
    IF log = <<>> \/ log[Len(log)] # 0 THEN 0
    ELSE 1 + TrailingZeros(SubSeq(log, 1, Len(log) - 1))

\* N: the first iteration of the unbroken run of iterations without a fill
\* that the finished iterations end with
StagnantSince == Len(filled_log) - TrailingZeros(filled_log) + 1

\* C3 as stated: unsolvable is set exactly at iteration N + 5, with
\* iterations_without_progress = 5.
C3_BoundaryAtNPlus5 ==
    (method \in EliminationMethods /\ unsolvable) =>
        /\ solver_iterations = StagnantSince + 5
        /\ iterations_without_progress = 5

\* C3 amended: an elimination strategy sets unsolvable exactly when five
\* iterations in a row have filled no cell, which is at iteration N + 4 for a
\* run that began at iteration N, and iterations_without_progress is 5 then.
C3_BoundaryAtNPlus4 ==
    method \in EliminationMethods =>
        /\ unsolvable =>
              /\ solver_iterations = StagnantSince + 4
              /\ iterations_without_progress = 5
        /\ ~unsolvable => TrailingZeros(filled_log) < 5

\* a run that filled cells first and then stagnated (N > 1)
C3_Witness ==
    /\ method \in EliminationMethods
    /\ unsolvable
    /\ StagnantSince > 1

\* C4: in every reachable state a cell with value v # 0 has candidate set {v}.
C4_FilledCellCandidates ==
    \A c \in Cells : value[c] # 0 => possible_values[c] = {value[c]}

\* C5: if a weaker elimination strategy ends solved on a grid, every stronger
\* one ends solved on that grid too, with the same final grid cell for cell.
C5_StrongerSolvesSame ==
    \A i, j \in 1..3 :
        (i < j /\ Outcome(Methods[i]).ran /\ Outcome(Methods[j]).ran
               /\ Outcome(Methods[i]).solved) =>
            /\ Outcome(Methods[j]).solved
            /\ Outcome(Methods[j]).value = Outcome(Methods[i]).value

\* a puzzle the weakest strategy solved by filling cells, and a stronger one has run
C5_Witness ==
    /\ Outcome("elimination").ran
    /\ Outcome("elimination").solved
    /\ Outcome("elimination").cells_filled > 0
    /\ Outcome("elimination_pro").ran

OperationsMonotone ==
    \A i, j \in 1..3 :
        (i < j /\ Outcome(Methods[i]).ran /\ Outcome(Methods[j]).ran) =>
            Outcome(Methods[j]).elimination_operations
                >= Outcome(Methods[i]).elimination_operations

\* the completions known of the input grids
KnownCompletions == {Solution}

HasCompletion(g) == \E S \in KnownCompletions : IsCompletionOf(S, g)

\* C6 as stated: on every starting grid, contradictory ones included, the
\* elimination_operations counts of the finished runs are ordered
\* elimination <= elimination_plus <= elimination_pro.
C6_OperationsMonotoneAnyGrid == OperationsMonotone

\* C6 amended: the counts are so ordered on every starting grid that has a
\* completion (a complete grid satisfying all units that agrees with the givens).
C6_OperationsMonotoneConsistent == HasCompletion(grid) => OperationsMonotone

\* a grid with a completion on which the pairs technique removed candidates
\* that basic elimination alone did not
C6_Witness ==
    /\ HasCompletion(grid)
    /\ Outcome("elimination").ran
    /\ Outcome("elimination_plus").ran
    /\ Outcome("elimination_plus").elimination_operations
          > Outcome("elimination").elimination_operations

\* no filled cell's value is a candidate of another cell of its row, column or box
AtFixedPoint ==
    \A i \in Cells :
        value[i] # 0 => \A c \in house[i] \ {i} : value[i] \notin possible_values[c]

\* C7: run at a fixed point (a freshly constructed, completely and validly
\* filled puzzle included), _perform_basic_elimination adds 0 to
\* elimination_operations and fills 0 cells.
C7_BasicEliminationIdempotent ==
    [][(pc = "sweep" /\ AtFixedPoint) =>
          /\ elimination_operations' = elimination_operations
          /\ Singles(value', possible_values') = {}]_vars

\* C8: get_cell(row, col) returns the cell at (row, col) when both are in
\* 0..8 and fails with an out-of-range error otherwise.
C8_GetCellRangeChecked ==
    lookup.called =>
        IF lookup.x \in 0..8 /\ lookup.y \in 0..8
        THEN ~lookup.raised /\ lookup.index = lookup.x * 9 + lookup.y
        ELSE lookup.raised

\* C9: with a strategy name outside the closed set, solve() fails and leaves
\* every cell value, every candidate set and every statistics counter as
\* constructed.
C9_UnknownMethodFailsFast ==
    method \notin MethodSet =>
        /\ pc \in {"constructed", "raised"}
        /\ value = grid
        /\ possible_values = [c \in Cells |-> CellInit(grid[c])]
        /\ cells_filled = 0 /\ elimination_operations = 0
        /\ solver_iterations = 0 /\ logical_steps = 0
        /\ iterations_without_progress = 0
        /\ ~solved /\ ~unsolvable

\* solve() has raised for an unknown strategy name on a grid with empty cells
C9_Witness ==
    /\ method \notin MethodSet
    /\ pc = "raised"
    /\ EmptyCount(grid) > 0

\* C10: the random strategy never makes more than max_attempts attempts
\* (solver_iterations counts them), and it always terminates with solved or
\* unsolvable set.  Termination is stated by its variant: every attempt but
\* the last fills an empty cell, solve() returns only with solved or
\* unsolvable set, and inside the loop either another attempt or the exit is
\* enabled.
C10_RandomBounded ==
    method = "random" =>
        /\ solver_iterations = attempt
        /\ attempt <= max_attempts
        /\ cells_filled <= EmptyCount(grid)
        /\ attempt <= cells_filled + 1
        /\ pc = "done" => solved \/ unsolvable
        /\ pc \in {"rloop", "rbreak"} => ENABLED (RandomAttempt \/ RandomExit)
        /\ pc \in {"constructed", "rloop", "rbreak", "done"}

\* the random strategy has returned after several attempts
C10_Witness ==
    /\ method = "random"
    /\ pc = "done"
    /\ solver_iterations > 2

\* C11: on the easy puzzle of the specification, solve() with the elimination
\* strategy terminates (within 7 iterations, the loop never stuck) with
\* solved = true and unsolvable = false, all 27 units satisfied and every
\* given cell unchanged.
C11_EasyPuzzleSolved ==
    (grid = EasyGrid /\ method = "elimination") =>
        /\ solver_iterations <= 7
        /\ pc = "loop" => ENABLED (IterBegin \/ LoopExit)
        /\ ~unsolvable
        /\ \A c \in Cells : grid[c] # 0 => value[c] = grid[c]
        /\ pc = "done" =>
              /\ solved
              /\ \A u \in 0..26 : is_satisfied(units[u], value)
              /\ IsCompletionOf(value, EasyGrid)

\* the elimination strategy has returned on the easy puzzle
C11_Witness ==
    /\ grid = EasyGrid
    /\ method = "elimination"
    /\ pc = "done"
    /\ cells_filled = EmptyCount(EasyGrid)

\* C12: two runs of solve() with the same elimination strategy from the same
\* input grid end with identical cell values, identical candidate sets and
\* identical statistics counters, whatever the order in which the digits of
\* a locked pair or triple are visited.
C12_SameGridSameOutcome ==
    (pc = "done" /\ method \in EliminationMethods /\ results[method].ran) =>
        CurrentOutcome = results[method]

\* C13: within one call of _perform_basic_elimination the elimination sweep
\* changes no cell value and fills no cell; the fills come after the whole
\* sweep, they fill exactly cells the finished sweep left with one candidate,
\* and they leave the candidates of every cell that stays unfilled alone (a
\* value just filled is not taken from its peers before the next sweep).
C13_TwoPhaseOrder ==
    [][/\ pc = "sweep" =>
             /\ value' = value
             /\ cells_filled' = cells_filled
             /\ pc' = "fill"
       /\ pc = "fill" =>
             /\ \A c \in Cells :
                   value'[c] # value[c] => c \in Singles(value, possible_values)
             /\ \A p \in Cells :
                   value'[p] = 0 => possible_values'[p] = possible_values[p]]_vars

\* an iteration of the elimination strategy has filled a cell whose value an
\* unfilled cell of its row, column or box still lists as a candidate
C13_Witness ==
    /\ method = "elimination"
    /\ pc = "check"
    /\ cells_filled_this_iteration > 0
    /\ \E c \in Cells :
          /\ grid[c] = 0 /\ value[c] # 0
          /\ \E p \in house[c] \ {c} :
                value[p] = 0 /\ value[c] \in possible_values[p]

\* the state of the unit's processing when its n-th key is reached
BeforeKey(n, keys, unit, k, sigma, val, pv) ==
    ExcludeFrom(1, SubSeq(keys, 1, n - 1), unit, k, sigma, val, pv,
                [val |-> val, pv |-> pv, ops |-> 0, ls |-> 0, filled |-> 0])

\* the n-th key of the unit is treated as locked and a digit of it is removed
\* from some cell
Removes(n, keys, unit, k, sigma, val, pv) ==
    LET group == CellsWith(keys[n], unit, val, pv)
        before == BeforeKey(n, keys, unit, k, sigma, val, pv)
    IN  /\ Locked(group, k)
        /\ ExcludeKey(keys[n], group, unit, sigma, before).ops > before.ops

\* Every key whose digits the pass removes was, when the processing of the
\* unit began, the candidate set of exactly k unfilled cells of the unit (its
\* group), and the removal changes only cells of the unit outside the group
\* that are unfilled when it happens.
ExclusionAtEntry(unit, k, sigma, val, pv) ==
    LET keys == Keys(unit, k, val, pv)
    IN  \A n \in 1..Len(keys) :
            LET group == CellsWith(keys[n], unit, val, pv)
                before == BeforeKey(n, keys, unit, k, sigma, val, pv)
                after == ExcludeKey(keys[n], group, unit, sigma, before)
            IN  Removes(n, keys, unit, k, sigma, val, pv) =>
                    /\ Cardinality(group) = k
                    /\ \A c \in group : val[c] = 0 /\ pv[c] = keys[n]
                    /\ \A c \in Cells :
                          (after.val[c] # before.val[c] \/ after.pv[c] # before.pv[c]) =>
                              c \in UnitSet(unit) \ group /\ before.val[c] = 0

\* Every key whose digits the pass removes is, at the moment of the removal,
\* the candidate set of exactly the unfilled cells of its group, and those
\* cells have value 0 and candidate set key when the processing of the unit ends.
ExclusionAtRemoval(unit, k, sigma, val, pv) ==
    LET keys == Keys(unit, k, val, pv)
        final == ApplyToUnit(unit, k, sigma, val, pv)
    IN  \A n \in 1..Len(keys) :
            LET group == CellsWith(keys[n], unit, val, pv)
                before == BeforeKey(n, keys, unit, k, sigma, val, pv)
            IN  Removes(n, keys, unit, k, sigma, val, pv) =>
                    /\ CellsWith(keys[n], unit, before.val, before.pv) = group
                    /\ \A c \in group : final.val[c] = 0 /\ final.pv[c] = keys[n]

\* k of the pass the solver is in
PassSize == IF pc = "pairs" THEN 2 ELSE 3

\* C14 as stated: whenever a pairs (k = 2) or triples (k = 3) pass removes
\* the digits of a set K from cells of a unit, K is at that moment the exact
\* candidate set of exactly k unfilled cells of the unit, only other unfilled
\* cells of the unit change, and the k cells keep value 0 and candidate set K
\* throughout the processing of the unit.
C14_ExclusionLockedAtRemoval ==
    pc \in {"pairs", "triples"} =>
        \A sigma \in Orders(PassSize) :
            /\ ExclusionAtEntry(units[unit_idx], PassSize, sigma, value, possible_values)
            /\ ExclusionAtRemoval(units[unit_idx], PassSize, sigma, value, possible_values)

\* C14 amended: K was the exact candidate set of exactly k unfilled cells of
\* the unit when the processing of the unit began, and the removal changes
\* only unfilled cells of the unit other than those k; when the input grid
\* has a completion, the k cells still have value 0 and candidate set K at
\* the removal and when the processing of the unit ends.
C14_ExclusionLockedAtEntry ==
    pc \in {"pairs", "triples"} =>
        \A sigma \in Orders(PassSize) :
            /\ ExclusionAtEntry(units[unit_idx], PassSize, sigma, value, possible_values)
            /\ HasCompletion(grid) =>
                  ExclusionAtRemoval(units[unit_idx], PassSize, sigma, value, possible_values)

\* on a grid with a completion, a triples pass is about to remove the digits of
\* a locked triple from cells of the unit it is at
C14_Witness ==
    /\ HasCompletion(grid)
    /\ pc = "triples"
    /\ \E n \in 1..Len(Keys(units[unit_idx], 3, value, possible_values)) :
          Removes(n, Keys(units[unit_idx], 3, value, possible_values), units[unit_idx],
                  3, [j \in 1..3 |-> j], value, possible_values)

\* no digit occurs twice among the nine cells of any unit
NoRepeat(val) ==
    \A u \in 0..26, d \in Digits : Cardinality({k \in 1..9 : val[units[u][k]] = d}) <= 1

\* the digits of the filled cells of c's row, column and box
PeerValues(c, val) == {val[p] : p \in {q \in house[c] \ {c} : val[q] # 0}}

\* C15: every value the random strategy writes goes into a cell that was
\* empty and differs from the value of every filled cell of that cell's row,
\* column and box; so from an input grid without a digit repeated in a unit
\* the random strategy reaches no state with a digit repeated in a unit.  An
\* attempt that finds no such digit for the empty cell it chose sets
\* unsolvable and changes no cell.
C15_RandomPlacement ==
    /\ [](method = "random" /\ NoRepeat(grid) => NoRepeat(value))
    /\ [][(method = "random" /\ pc = "rloop" /\ RandomContinues) =>
             /\ \A c \in Cells :
                   value'[c] # value[c] =>
                       /\ value[c] = 0
                       /\ value'[c] \in Digits \ PeerValues(c, value)
                       /\ \A p \in Cells \ {c} : value'[p] = value[p]
             /\ unsolvable' =>
                   /\ value' = value /\ possible_values' = possible_values
                   /\ cells_filled' = cells_filled
                   /\ \E c \in Cells : value[c] = 0 /\ Digits \ PeerValues(c, value) = {}
             /\ (value' = value /\ \E c \in Cells : value[c] = 0) => unsolvable']_vars

\* from a grid without a repeated digit the random strategy has placed a
\* value and then met an empty cell with no digit left
C15_Witness ==
    /\ method = "random"
    /\ NoRepeat(grid)
    /\ cells_filled > 0
    /\ unsolvable
    /\ value # grid

\* C16: for the three elimination strategies, if the input grid has a
\* completion S, then in every reachable state every filled cell holds S's
\* digit for that cell and every unfilled cell lists S's digit for that cell
\* among its candidates.
C16_DeductionSound ==
    method \in EliminationMethods =>
        \A S \in KnownCompletions :
            IsCompletionOf(S, grid) =>
                \A c \in Cells :
                    /\ value[c] # 0 => value[c] = S[c]
                    /\ value[c] = 0 => S[c] \in possible_values[c]

\* on a grid with a completion the strongest strategy has returned without
\* solving it, after filling cells and removing candidates by subset exclusion
C16_Witness ==
    /\ HasCompletion(grid)
    /\ method = "elimination_pro"
    /\ pc = "done"
    /\ cells_filled > 0
    /\ ~solved
    /\ elimination_operations > Outcome("elimination").elimination_operations

\* C17: under every strategy and on every input grid, solved and unsolvable
\* are never both true: the random strategy, whose attempts (at most one per
\* empty cell, and one more) stay below the cap, does not set unsolvable once
\* it has set solved, and an elimination run that reaches the stagnation
\* limit leaves solved false.
C17_ExclusiveOutcome ==
    /\ ~(solved /\ unsolvable)
    /\ method = "random" => attempt <= EmptyCount(grid) + 1
    /\ (method \in EliminationMethods
           /\ iterations_without_progress >= max_iterations_without_progress) =>
          ~solved /\ unsolvable

\* the random strategy has returned after filling the last empty cell with its
\* last attempt, the check of the cap passed
C17_Witness ==
    /\ method = "random"
    /\ pc = "done"
    /\ solved
    /\ attempt = EmptyCount(grid)
    /\ attempt > 1

\* the cells of val that hold a digit
Filled(val) == {c \in Cells : val[c] # 0}

\* C18: under every strategy no step of solve() changes a cell whose value is
\* non-zero, so every given of the input grid keeps its value, and
\* cells_filled is always the number of non-zero cells less the number of
\* givens.
C18_FilledValuesPermanent ==
    /\ [](/\ \A c \in Cells : grid[c] # 0 => value[c] = grid[c]
          /\ cells_filled = Cardinality(Filled(value)) - Cardinality(Filled(grid)))
    /\ [][pc # "done" => \A c \in Cells : value[c] # 0 => value'[c] = value[c]]_vars

\* a run of subset exclusion has returned with cells it filled next to the givens
C18_Witness ==
    /\ method = "elimination_plus"
    /\ pc = "done"
    /\ cells_filled > Outcome("elimination").cells_filled
    /\ Filled(grid) # {}

====
